---- MODULE Spec2Model ----
(***************************************************************************)
(* The event-driven QUIC benchmark client of examples/client.c: one        *)
(* connection, one non-blocking UDP socket, three libev timers and the     *)
(* timing ledger fcts.  The quiche engine, the socket and the clock are    *)
(* the environment: every result they can return is an input drawn with    *)
(* \E.  Each libev callback runs to completion and is one action.          *)
(***************************************************************************)
EXTENDS Integers, Sequences, FiniteSets, TLC

(* ---- bounds of the model ---------------------------------------------- *)

\* The request budget, "#define N 100" (client.c:50).  The model keeps the
\* code's arithmetic in N and explores it for a small N.
N == 2

\* Largest number of packets the engine holds ready for quiche_conn_send.
MaxPending == 1

\* Largest number of streams the readable iterator yields in one pass.
MaxReadable == 2

\* The clock is read in ticks 1..MaxTime of TickUsec microseconds each.
MaxTime == 2
TickUsec == 700000

\* The peer opens unidirectional streams: the ids 3, 7, ... up to MaxStream.
MaxStream == 3

\* Largest value quiche_conn_timeout_as_nanos reports, in timer units.
MaxTimeout == 1

(* ---- program constants ------------------------------------------------ *)

\* conn_io->request.repeat = 0.1 and conn_io->close.repeat = 1, in tenths
\* of a second.
RequestRepeat == 1
CloseRepeat == 10

\* conn_io->request_id = 4
FirstRequestId == 4

VARIABLES
    run,          \* "loop": inside ev_loop; "breaking": ev_break was called;
                  \* "exited": the process has ended; "crashed": killed
    exit_status,  \* the process exit status once run = "exited"
    outstanding,  \* callbacks still pending in the loop iteration that broke
    request_id,   \* conn_io->request_id
    fcts,         \* the timing ledger, fcts[0..N-1]
    stray,        \* ledger indices written outside fcts[0..N-1]
    timer,        \* conn_io->timer   (retransmission)
    request,      \* conn_io->request (cadence)
    close,        \* conn_io->close   (shutdown grace)
    established,  \* quiche_conn_is_established
    closed,       \* quiche_conn_is_closed
    pending,      \* packets the engine has ready for quiche_conn_send
    finished,     \* streams whose fin the driver has read
    now,          \* the latest reading of the wall clock, in ticks
    issued,       \* stream ids of the successful quiche_conn_stream_send calls
    fatal,        \* a fatal transport error has happened (short send, recv error)
    close_runs,   \* number of close_cb invocations
    close_rc,     \* result of quiche_conn_close: "none", "ok" or "fail"
    report,       \* the (index, latency) lines close_cb printed
    last          \* what the most recent callback did

vars == <<run, exit_status, outstanding, request_id, fcts, stray, timer, request,
          close, established, closed, pending, finished, now, issued, fatal, close_runs,
          close_rc, report, last>>

(* ---- the clock and struct timeval ------------------------------------- *)

Zero == [tv_sec |-> 0, tv_usec |-> 0]

\* gettimeofday at tick t
gettimeofday(t) ==
    [tv_sec |-> (t * TickUsec) \div 1000000, tv_usec |-> (t * TickUsec) % 1000000]

IsSet(tv) == tv # Zero

Later(a, b) ==
    \/ a.tv_sec > b.tv_sec
    \/ a.tv_sec = b.tv_sec /\ a.tv_usec > b.tv_usec

\* C integer division truncates towards zero
CDiv(a, b) == IF a >= 0 THEN a \div b ELSE -((-a) \div b)

\* The value close_cb prints for one entry: computed in unsigned long long and
\* printed with %lld, which shows the same 64-bit pattern as a signed number.
latency_ms(tm1, tm2) ==
    1000 * (tm2.tv_sec - tm1.tv_sec) + CDiv(tm2.tv_usec - tm1.tv_usec, 1000)

(* ---- the ledger ------------------------------------------------------- *)

Slots == 0 .. (N - 1)

fcts_init == [i \in Slots |-> [begin |-> Zero, end |-> Zero]]

InBounds(i) == i \in Slots

\* fcts[i].<field> = tv for an index inside the array
fcts_store(f, i, field, tv) ==
    IF InBounds(i) THEN [f EXCEPT ![i][field] = tv] ELSE f

\* ledger index of a stream id: request_id / 4 and s / 4
ledger_index(id) == id \div 4

(* ---- libev timers ----------------------------------------------------- *)

TimerOff == [active |-> FALSE, repeat |-> 0]

\* w->repeat = r; ev_timer_again(loop, w): restarts the timer when the repeat
\* value is positive and stops it when the repeat value is zero.
ev_timer_again(r) == [active |-> r > 0, repeat |-> r]

ev_timer_stop(w) == [w EXCEPT !.active = FALSE]

(* ---- flush_egress ----------------------------------------------------- *)

\* The outcomes of the send loop with p packets ready: k packets are sent in
\* full, then the loop ends because the engine reports done, because
\* quiche_conn_send fails, or because send() accepts another byte count.
Timeouts == 0 .. MaxTimeout

\* tmo is the engine's timeout estimate, read only after a loop that ends "done".
FlushInputs(p) ==
    {[k |-> p, end |-> "done", tmo |-> x] : x \in Timeouts}
      \cup {[k |-> j, end |-> "create_err", tmo |-> 0] : j \in 0 .. p}
      \cup {[k |-> j, end |-> "short_send", tmo |-> 0] : j \in 0 .. (p - 1)}

\* Does this exit of the send loop reach the timer code after the loop?
flush_reaches_timer(end) == end = "done"

\* A flush that writes a datagram to the socket before it asks the engine.
flush_egress_sends_first(p, tm, in) ==
    [pending |-> IF in.end = "short_send" THEN p - in.k - 1 ELSE p - in.k,
     timer   |-> IF flush_reaches_timer(in.end) THEN ev_timer_again(in.tmo) ELSE tm,
     fatal   |-> in.end = "short_send",
     flush   |-> in.end,
     sends   |-> in.k + 1,
     ready   |-> p]

\* flush_egress with p packets ready, the retransmission timer tm and the
\* outcome in of the loop.
flush_egress(p, tm, in) ==
    [pending |-> IF in.end = "short_send" THEN p - in.k - 1 ELSE p - in.k,
     timer   |-> IF flush_reaches_timer(in.end) THEN ev_timer_again(in.tmo) ELSE tm,
     fatal   |-> in.end = "short_send",
     flush   |-> in.end,
     sends   |-> in.k,
     ready   |-> p]

NoFlush == [flush |-> "none", sends |-> 0, ready |-> 0]

(* ---- the event loop --------------------------------------------------- *)

Callbacks == {"recv_cb", "request_cb", "timeout_cb", "close_cb"}

\* The callbacks whose watcher is active: the io watcher always is.
ActiveSet(tm, rq, cl) ==
    {"recv_cb"}
      \cup (IF tm.active THEN {"timeout_cb"} ELSE {})
      \cup (IF rq.active THEN {"request_cb"} ELSE {})
      \cup (IF cl.active THEN {"close_cb"} ELSE {})

\* ev_loop invokes a callback whose watcher is active; after ev_break it
\* still invokes the events outstanding in the current iteration.  In one
\* iteration libev invokes the expired timers before the io watcher, so
\* nothing is outstanding once recv_cb ran.
Dispatch(cb) ==
    /\ cb \in ActiveSet(timer, request, close)
    /\ run \in {"loop", "breaking"}
    /\ run = "breaking" => cb \in outstanding

Outstanding(cb, act) ==
    IF cb = "recv_cb" THEN {{}} ELSE SUBSET (act \ {cb})

\* The loop after callback cb returns: brk says that cb called ev_break and
\* act is the set of active watchers cb leaves.
Finish(cb, brk, act) ==
    IF run = "loop"
    THEN IF brk
         THEN run' = "breaking" /\ outstanding' \in Outstanding(cb, act)
         ELSE run' = "loop" /\ outstanding' = {}
    ELSE run' = "breaking" /\ outstanding' = (outstanding \ {cb}) \cap act

\* The readings a gettimeofday call can return: time does not run backwards
\* between two readings and the model stops it at MaxTime.  A callback that
\* does not read the clock (reads = FALSE) leaves the latest reading alone.
ClockNext(reads) == IF reads THEN {t \in {now, now + 1} : t <= MaxTime} ELSE {now}

Min(a, b) == IF a <= b THEN a ELSE b

\* The numbers of packets ready after a call that may make the engine queue
\* one more packet (may = FALSE: the call queues nothing).
queue(p, may) == IF may THEN p .. Min(p + 1, MaxPending) ELSE {p}

\* What consuming datagrams can do to a flag of the engine that never resets.
raise(flag, may) == IF may /\ ~flag THEN BOOLEAN ELSE {flag}

\* exit(c) and "return c" from main: the status is the low byte of c.
exit_code(c) == c % 256

\* An out-of-bounds store to fcts is undefined behaviour: the store lands in
\* the memory after the array and the program goes on, or the process is killed.
UBOutcomes == {"stray", "crash"}

\* What a callback did: its name, the path it took, how its flush_egress call
\* ended ("none": not called), the packets that call sent and the packets the
\* engine had ready when it was called, whether transport statistics were
\* printed and how many streams the readable iterator still held when the
\* pass over it stopped.
Last(cb, path, fl, stats, abandoned) ==
    [cb |-> cb, path |-> path, flush |-> fl.flush, sends |-> fl.sends,
     ready |-> fl.ready, stats |-> stats, abandoned |-> abandoned]

(* ---- request_cb ------------------------------------------------------- *)

\* A gate that does not ask whether the handshake is complete.
request_gate_ignores_handshake(est, rid) == rid <= 4 * N

\* line 181: is a request issued in this tick?
request_gate(est, rid) == est /\ rid <= 4 * N

\* A stride that is not the stride of client-initiated bidirectional streams.
request_id_plus_2(rid, res) == IF res = "ok" THEN rid + 2 ELSE rid

\* A request_id that advances whether or not the write succeeded.
request_id_always_advances(rid, res) == rid + 4

\* lines 184-191: request_id advances by 4 in the branch of a successful
\* write only (res: "ok", "fail", or "none" when no write was attempted)
next_request_id(rid, res) == IF res = "ok" THEN rid + 4 ELSE rid

\* A switch of the timers that happens one request early.
budget_exhausted_one_early(rid) == rid >= 4 * N

\* line 194: has the budget been used up?
budget_exhausted(rid) == rid > 4 * N

request_cb ==
    /\ Dispatch("request_cb")
    /\ \E res \in (IF request_gate(established, request_id)
                    THEN {"ok", "fail"} ELSE {"none"}) :
       \E t \in ClockNext(res = "ok") :
        LET gate == request_gate(established, request_id)
            idx  == ledger_index(request_id)
        IN
        /\ now' = t
        /\ IF gate /\ res = "fail"
           THEN \* line 186: return
                /\ last' = Last("request_cb", "write_failed", NoFlush, FALSE, 0)
                /\ Finish("request_cb", FALSE, ActiveSet(timer, request, close))
                /\ request_id' = next_request_id(request_id, res)
                /\ UNCHANGED <<exit_status, finished, fcts, stray, timer, request,
                               close, established, closed, pending, issued, fatal,
                               close_runs, close_rc, report>>
           ELSE \E ub \in (IF gate /\ ~InBounds(idx) THEN UBOutcomes ELSE {"stray"}) :
                IF ub = "crash"
                THEN \* the store of line 189 kills the process
                     /\ run' = "crashed"
                     /\ outstanding' = {}
                     /\ issued' = Append(issued, request_id)
                     /\ last' = Last("request_cb", "crashed", NoFlush, FALSE, 0)
                     /\ UNCHANGED <<exit_status, finished, request_id, fcts, stray, timer,
                                    request, close, established, closed, pending, fatal, close_runs,
                                    close_rc, report>>
                ELSE \E p0 \in queue(pending, gate) :
                     LET rid == next_request_id(request_id, res)
                         cl  == IF budget_exhausted(rid)
                                THEN ev_timer_again(CloseRepeat) ELSE close
                         rq  == IF budget_exhausted(rid)
                                THEN ev_timer_stop(request)
                                ELSE ev_timer_again(RequestRepeat)
                     IN \E in \in FlushInputs(p0) :
                        LET fl == flush_egress(p0, timer, in) IN
                        /\ request_id' = rid
                        /\ issued' = IF gate THEN Append(issued, request_id) ELSE issued
                        /\ fcts' = IF gate
                                   THEN fcts_store(fcts, idx, "begin", gettimeofday(t))
                                   ELSE fcts
                        /\ stray' = IF gate /\ ~InBounds(idx) THEN stray \cup {idx} ELSE stray
                        /\ close' = cl
                        /\ request' = rq
                        /\ timer' = fl.timer
                        /\ pending' = fl.pending
                        /\ fatal' = (fatal \/ fl.fatal)
                        /\ last' = Last("request_cb",
                                         IF gate THEN "issued"
                                         ELSE IF established THEN "exhausted"
                                         ELSE "not_established",
                                         fl, FALSE, 0)
                        /\ Finish("request_cb", FALSE, ActiveSet(fl.timer, rq, cl))
                        /\ UNCHANGED <<exit_status, finished, established, closed, close_runs,
                                       close_rc, report>>

(* ---- recv_cb ---------------------------------------------------------- *)

\* How the receive loop of lines 111-137 ends: "drained" by a break (recv()
\* would block, line 117, or the engine reports done, line 128), by a recv()
\* error or by an engine error.  Before that the engine consumed no datagram or
\* at least one (consumed).
RecvEnds == {"drained", "recv_err", "conn_err"}

\* Does this end of the receive loop leave recv_cb at once (lines 121, 133)?
recv_returns_early(end) == end \in {"recv_err", "conn_err"}

\* The streams the engine can report readable: the streams the driver opened
\* and the streams the peer opened, without those already read to their fin.
ServerStreams == {s \in 1 .. MaxStream : s % 4 = 3}

ReadableStreams == ({issued[i] : i \in 1 .. Len(issued)} \cup ServerStreams) \ finished

\* quiche_conn_stream_recv: an error, bytes without fin, bytes with fin
ReadResults == {"err", "data", "fin"}

\* One pass of the readable iterator: distinct streams, each with the result
\* of its read.
Passes ==
    {rd \in UNION {[1 .. n -> [s : ReadableStreams, res : ReadResults]] :
                      n \in 0 .. MaxReadable} :
        \A i, j \in DOMAIN rd : i # j => rd[i].s # rd[j].s}

\* lines 162-169 for one stream read without error
read_step(acc, e, tv) ==
    IF e.res = "fin"
    THEN [fcts     |-> fcts_store(acc.fcts, ledger_index(e.s), "end", tv),
          stray    |-> IF InBounds(ledger_index(e.s)) THEN acc.stray
                       ELSE acc.stray \cup {ledger_index(e.s)},
          finished |-> acc.finished \cup {e.s},
          reads    |-> acc.reads + 1,
          left     |-> acc.left - 1]
    ELSE [acc EXCEPT !.reads = @ + 1, !.left = @ - 1]

\* line 158: does the result of this read end the pass?
read_ends_pass(res) == res = "err"

\* lines 151-170: the pass stops at the first read that fails; acc.left counts
\* the streams the iterator has not yielded yet
RECURSIVE read_pass(_, _, _, _)
read_pass(rd, i, acc, tv) ==
    IF i > Len(rd) THEN acc
    ELSE IF read_ends_pass(rd[i].res) THEN [acc EXCEPT !.left = @ - 1]
    ELSE read_pass(rd, i + 1, read_step(acc, rd[i], tv), tv)

HasFin(rd) == \E i \in DOMAIN rd : rd[i].res = "fin"

recv_cb ==
    /\ Dispatch("recv_cb")
    /\ \E consumed \in BOOLEAN, end \in RecvEnds :
       \E est \in raise(established, consumed), cl \in raise(closed, consumed) :
        /\ established' = est
        /\ closed' = cl
        /\ UNCHANGED <<exit_status, request_id, request, close, issued, close_runs,
                       close_rc, report>>
        /\ IF recv_returns_early(end)
           THEN \* lines 121 and 133: return
                /\ pending' \in queue(pending, consumed)
                /\ fatal' = (fatal \/ end = "recv_err")
                /\ last' = Last("recv_cb", end, NoFlush, FALSE, 0)
                /\ Finish("recv_cb", FALSE, ActiveSet(timer, request, close))
                /\ UNCHANGED <<fcts, stray, timer, finished, now>>
           ELSE IF cl
           THEN \* lines 139-144: ev_break
                /\ pending' \in queue(pending, consumed)
                /\ last' = Last("recv_cb", "closed", NoFlush, FALSE, 0)
                /\ Finish("recv_cb", TRUE, ActiveSet(timer, request, close))
                /\ UNCHANGED <<fcts, stray, timer, finished, fatal, now>>
           ELSE \E rd \in (IF est THEN Passes ELSE {<<>>}) :
                \E t \in ClockNext(HasFin(rd)) :
                LET acc == read_pass(rd, 1,
                                     [fcts |-> fcts, stray |-> stray,
                                      finished |-> finished, reads |-> 0,
                                      left |-> Len(rd)],
                                     gettimeofday(t))
                IN
                \E ub \in (IF acc.stray # stray THEN UBOutcomes ELSE {"stray"}) :
                /\ now' = t
                /\ fcts' = acc.fcts
                /\ stray' = acc.stray
                /\ finished' = acc.finished
                /\ IF ub = "crash"
                   THEN \* the store of line 165 kills the process
                        /\ run' = "crashed"
                        /\ outstanding' = {}
                        /\ last' = Last("recv_cb", "crashed", NoFlush, FALSE, acc.left)
                        /\ UNCHANGED <<timer, pending, fatal>>
                   ELSE \E p0 \in queue(pending, consumed \/ acc.reads > 0) :
                        \E in \in FlushInputs(p0) :
                        LET fl == flush_egress(p0, timer, in) IN
                        /\ timer' = fl.timer
                        /\ pending' = fl.pending
                        /\ fatal' = (fatal \/ fl.fatal)
                        /\ last' = Last("recv_cb", end, fl, FALSE, acc.left)
                        /\ Finish("recv_cb", FALSE, ActiveSet(fl.timer, request, close))

(* ---- timeout_cb ------------------------------------------------------- *)

\* A handler that looks at is-closed before it notifies the engine.
timeout_is_closed_first(before, after) == before

\* line 214: quiche_conn_is_closed is asked after quiche_conn_on_timeout and
\* flush_egress; before is the engine's answer when the handler was entered,
\* after its answer once the timeout was processed.
timeout_is_closed(before, after) == after

timeout_cb ==
    /\ Dispatch("timeout_cb")
    /\ \E cl \in raise(closed, TRUE), p0 \in queue(pending, TRUE) :
       \E in \in FlushInputs(p0) :
        LET fl  == flush_egress(p0, timer, in)
            brk == timeout_is_closed(closed, cl)
        IN
        /\ closed' = cl
        /\ timer' = fl.timer
        /\ pending' = fl.pending
        /\ fatal' = (fatal \/ fl.fatal)
        /\ last' = Last("timeout_cb", IF brk THEN "closed" ELSE "running", fl, brk, 0)
        /\ Finish("timeout_cb", brk, ActiveSet(fl.timer, request, close))
        /\ UNCHANGED <<exit_status, request_id, fcts, stray, request, close,
                       established, finished, now, issued, close_runs, close_rc, report>>

(* ---- close_cb --------------------------------------------------------- *)

\* lines 232-237: the lines of the report, in order
report_lines(f) ==
    [j \in 1 .. N |->
        [index |-> j - 1, ms |-> latency_ms(f[j - 1].begin, f[j - 1].end)]]

\* A close_cb that calls exit() only when quiche_conn_close fails.
close_cb_exits_on_failure(rc) == IF rc = "fail" THEN "exited" ELSE run

\* lines 239-245: both branches end the process
close_cb_run(rc) == "exited"

\* exit(-1) when quiche_conn_close fails, exit(0) otherwise
close_cb_status(rc) == IF rc = "fail" THEN exit_code(-1) ELSE exit_code(0)

close_cb ==
    /\ Dispatch("close_cb")
    /\ \E rc \in {"ok", "fail"} :
        /\ report' = report_lines(fcts)
        /\ close_rc' = rc
        /\ close_runs' = close_runs + 1
        /\ run' = close_cb_run(rc)
        /\ exit_status' = close_cb_status(rc)
        /\ outstanding' = IF close_cb_run(rc) = "exited" THEN {}
                          ELSE outstanding \ {"close_cb"}
        /\ last' = Last("close_cb", rc, NoFlush, FALSE, 0)
        /\ UNCHANGED <<request_id, fcts, stray, timer, request, close, established,
                       closed, pending, finished, now, issued, fatal>>

(* ---- main ------------------------------------------------------------- *)

\* quiche_connect leaves the first handshake packet ready to send.
InitialPending == 1

\* lines 357-365: ev_loop returns once ev_break was called and the events of
\* the iteration are processed; main frees the connection and returns 0.
main_return ==
    /\ run = "breaking"
    /\ outstanding = {}
    /\ run' = "exited"
    /\ exit_status' = exit_code(0)
    /\ UNCHANGED <<outstanding, request_id, fcts, stray, timer, request, close,
                   established, closed, pending, finished, now, issued, fatal,
                   close_runs, close_rc, report, last>>

\* The state when main enters ev_loop (lines 327-355).
Init ==
    /\ run = "loop"
    /\ exit_status = -1
    /\ outstanding = {}
    /\ request_id = FirstRequestId
    /\ fcts = fcts_init
    /\ stray = {}
    /\ request = ev_timer_again(RequestRepeat)
    /\ close = TimerOff
    /\ established = FALSE
    /\ closed = FALSE
    /\ finished = {}
    /\ now = 1
    /\ issued = <<>>
    /\ close_runs = 0
    /\ close_rc = "none"
    /\ report = <<>>
    /\ \E in \in FlushInputs(InitialPending) :
        LET fl == flush_egress(InitialPending, TimerOff, in) IN
        /\ timer = fl.timer
        /\ pending = fl.pending
        /\ fatal = fl.fatal
        /\ last = Last("main", "start", fl, FALSE, 0)

Next ==
    \/ recv_cb
    \/ request_cb
    \/ timeout_cb
    \/ close_cb
    \/ main_return

Spec == Init /\ [][Next]_vars

\* A cadence tick whose quiche_conn_stream_send succeeds (line 183).
request_written == request_cb /\ last'.path \in {"issued", "crashed"}

\* An event of the socket watcher that is outstanding when ev_break is called.
recv_outstanding == run = "breaking" /\ recv_cb

\* The event loop invokes every timer that stays active, invokes the events
\* outstanding in the iteration that broke and then returns from ev_loop; a
\* stream write that stays possible succeeds in the end.
Fairness ==
    /\ WF_vars(recv_outstanding)
    /\ WF_vars(request_cb)
    /\ WF_vars(timeout_cb)
    /\ WF_vars(close_cb)
    /\ WF_vars(main_return)
    /\ SF_vars(request_written)

LiveSpec == Init /\ [][Next]_vars /\ Fairness

(* ---- the claims -------------------------------------------------------- *)

\* What a callback that returned to the event loop did; a callback killed by
\* an out-of-bounds store did not return.
Returned(cb) == last.cb = cb /\ last.path # "crashed"

\* C1: every recv_cb invocation that does not end the run because the engine
\* reports closed calls flush_egress before it returns to the event loop.
C1_RecvAlwaysFlushes ==
    (Returned("recv_cb") /\ last.path # "closed") => last.flush # "none"

\* C2: every request_cb invocation ends by calling flush_egress, on every path.
C2_RequestAlwaysFlushes ==
    Returned("request_cb") => last.flush # "none"

\* C3: the number of successful quiche_conn_stream_send calls never exceeds
\* the budget N, however often the cadence timer fires.
C3_IssuedWithinBudget == Len(issued) <= N

\* C3 witness: the whole budget was issued and the loop is still running.
C3_BudgetReached ==
    Len(issued) = N /\ run = "loop" /\ last.cb # "request_cb"

\* C4: the i-th successful request (i from 0) is written to stream 4 + 4*i, and
\* request_id is 4 plus 4 per successful write: failed writes and ticks before
\* establishment leave it alone.
C4_StreamIds ==
    /\ \A i \in 1 .. Len(issued) : issued[i] = 4 + 4 * (i - 1)
    /\ run # "crashed" => request_id = 4 + 4 * Len(issued)

\* C4 witness: a failed write after a successful one.
C4_FailedAfterIssued ==
    Returned("request_cb") /\ last.path = "write_failed" /\ Len(issued) >= 1

\* C5: a ledger entry whose end timestamp is recorded has its begin timestamp
\* recorded, and the end is strictly later than the begin.
C5_EndAfterBegin ==
    \A i \in Slots :
        IsSet(fcts[i].end) =>
            IsSet(fcts[i].begin) /\ Later(fcts[i].end, fcts[i].begin)

\* C6: every ledger write uses an index in 0..N-1, and the i-th request (i from
\* 0) uses ledger index i.
C6_LedgerIndices ==
    /\ stray = {}
    /\ \A i \in 1 .. Len(issued) : ledger_index(issued[i]) = i - 1

\* C7: after a fatal transport error (a short send, a recv() error other than
\* would-block) the run has ended with a nonzero exit status.
C7_FatalAborts ==
    fatal => (run = "exited" /\ exit_status # 0)

\* C8: close_cb runs at most once, and no callback runs after it.
C8_CloseOnce ==
    /\ close_runs <= 1
    /\ close_runs = 1 => (run = "exited" /\ last.cb = "close_cb")

\* C8 witness: close_cb has run while its timer was armed as a repeating timer.
C8_CloseRan ==
    close_runs = 1 /\ close.active /\ close.repeat = CloseRepeat

\* C9: the report has a latency line only for entries whose end timestamp was
\* recorded.
C9_ReportOnlyCompleted ==
    \A j \in DOMAIN report : IsSet(fcts[report[j].index].end)

\* C10: the exit status is 0 only when quiche_conn_close succeeded and no fatal
\* transport error happened.
C10_ExitStatus ==
    (run = "exited" /\ exit_status = 0) => (close_rc = "ok" /\ ~fatal)

\* C11: a callback that ends the run because the engine reports the connection
\* closed (timeout_cb or recv_cb) has reported the transport statistics before
\* it breaks the event loop.
C11_StatsOnEveryClosedPath ==
    (last.cb \in {"recv_cb", "timeout_cb"} /\ last.path = "closed") => last.stats

\* Did the most recent callback call flush_egress when the engine had nothing
\* to send, so that the first quiche_conn_send returned QUICHE_ERR_DONE?
IdleFlush(l) == l.flush = "done" /\ l.ready = 0

\* C12: a flush_egress call with no pending engine output performs zero socket
\* writes, leaves the engine with nothing pending, raises no fatal error and
\* re-arms the retransmission timer with the engine's timeout estimate; this
\* holds for every such call, however many there were before.
C12_IdleFlushWritesNothing ==
    [][IdleFlush(last') =>
          /\ last'.sends = 0
          /\ pending' = 0
          /\ fatal' = fatal
          /\ \E x \in Timeouts : timer' = ev_timer_again(x)]_vars

\* C12 witness: a cadence tick ended in an idle flush, which wrote nothing and
\* left the retransmission timer armed.
C12_IdleFlushRearmed ==
    /\ IdleFlush(last)
    /\ last.cb = "request_cb"
    /\ timer.active
    /\ pending = 0

\* C13: once the connection is established the driver eventually issues all N
\* requests, unless the engine reports closed first, and the run eventually
\* terminates, by the shutdown-grace callback or because the engine reported
\* closed; a fin that never arrives does not prevent it.
C13_IssuesAllAndTerminates ==
    /\ established ~> (Len(issued) = N \/ closed)
    /\ established ~> (run = "exited" /\ (close_runs = 1 \/ closed))

\* C14: when a stream read fails in recv_cb's pass over the readable streams,
\* only that stream is given up: every stream the iterator still holds is read
\* in the same invocation.
C14_ReadErrorAbandonsOneStream ==
    Returned("recv_cb") => last.abandoned = 0

\* A cadence tick whose quiche_conn_stream_send fails (line 184).
request_failed == request_cb /\ last'.path = "write_failed"

\* C15: a cadence tick whose write fails advances no state: request_id, the
\* issued requests and the ledger are unchanged, the run goes on, the cadence
\* timer stays scheduled and the next tick attempts the same stream.
C15_FailedWriteSkipsTick ==
    [][request_failed =>
          /\ request_id' = request_id
          /\ issued' = issued
          /\ fcts' = fcts
          /\ stray' = stray
          /\ run' = run
          /\ request'.active
          /\ request_gate(established', request_id')]_vars

\* C15 witness: the first write failed and the loop waits for the next cadence
\* tick with the stream id of the first request.
C15_FirstWriteFailed ==
    /\ Returned("request_cb")
    /\ last.path = "write_failed"
    /\ run = "loop"
    /\ request.active
    /\ request_id = FirstRequestId

\* The event loop waits for the next event.
WaitPoint == run = "loop"

\* C16: at every wait point the cadence timer is active exactly while fewer
\* than N requests have been issued and the shutdown-grace timer exactly once
\* N requests have been issued, so the two are never active together.
C16_TimerPhases ==
    WaitPoint =>
        /\ request.active <=> Len(issued) < N
        /\ close.active <=> Len(issued) = N
        /\ ~(request.active /\ close.active)

\* C16 witness: the tick that issued the N-th request switched the timers.
C16_Switched ==
    /\ WaitPoint
    /\ Returned("request_cb")
    /\ last.path = "issued"
    /\ Len(issued) = N
    /\ close.active
    /\ ~request.active

\* C17: every flush_egress call that returns has re-armed the retransmission
\* timer, whichever way its send loop ended.
C17_FlushAlwaysRearms ==
    last.flush # "none" => flush_reaches_timer(last.flush)

\* C18: every timeout_cb invocation flushes egress after it notified the
\* engine and asks is-closed after the flush; it reports the statistics and
\* ends the run exactly when the engine then reports closed, and otherwise
\* returns with the event loop running.
C18_TimeoutOrder ==
    last.cb = "timeout_cb" =>
        /\ last.flush # "none"
        /\ last.path = "closed" <=> closed
        /\ closed => (run \in {"breaking", "exited"} /\ last.stats)
        /\ ~closed => run = "loop"

\* C18 witness: the timeout made the engine produce a packet, the flush sent
\* it, and the engine then reported closed: the loop is broken.
C18_ClosedAfterFlush ==
    /\ last.cb = "timeout_cb"
    /\ last.path = "closed"
    /\ last.sends > 0
    /\ run = "breaking"

\* C19: while the engine reports not-established no request has been written,
\* no ledger entry has a timestamp and request_id is the first stream id; a
\* cadence tick in that phase keeps the cadence timer running and flushes.
C19_NoRequestBeforeEstablished ==
    ~established =>
        /\ issued = <<>>
        /\ request_id = FirstRequestId
        /\ fcts = fcts_init
        /\ stray = {}
        /\ WaitPoint => (request.active /\ ~close.active)
        /\ last.path = "not_established" => last.flush # "none"

\* C19 witness: a cadence tick before the handshake completed.
C19_TickBeforeEstablished ==
    /\ ~established
    /\ Returned("request_cb")
    /\ last.path = "not_established"
    /\ WaitPoint

\* C20: distinct issued requests use distinct ledger indices, and a begin
\* timestamp that was recorded is never written again.
C20_BeginWrittenOnce ==
    /\ [](\A i, j \in 1 .. Len(issued) :
            i # j => ledger_index(issued[i]) # ledger_index(issued[j]))
    /\ [][\A i \in Slots :
            IsSet(fcts[i].begin) => fcts'[i].begin = fcts[i].begin]_vars

\* C20 witness: the whole budget was issued, the last request at a later clock
\* reading, and the first request's entry still holds the earlier reading.
C20_FirstBeginKept ==
    /\ Len(issued) = N
    /\ IsSet(fcts[ledger_index(FirstRequestId)].begin)
    /\ Later(gettimeofday(now), fcts[ledger_index(FirstRequestId)].begin)
    /\ Returned("request_cb")
    /\ last.path = "issued"

====
